---- MODULE Spec2Model ----
(***************************************************************************)
(* The podcast audio pipeline of src/podcast-agent.ts:                     *)
(*   - generatePodcastAudioWithRetry: cache, retry loop, backoff, fallback *)
(*   - generateSpeechWithProgress / generatePodcastAudioDirectAPI: the two *)
(*     speech transports                                                   *)
(*   - generatePodcastAudioWithVoice / generateAudioSegment /              *)
(*     splitTextIntoSegments: the per-turn dual-voice path                 *)
(*   - the dialogue assembler of createPodcastFromUrl                      *)
(*                                                                         *)
(* A text is a run-length encoded string: a sequence of runs [c, n], the   *)
(* character c repeated n >= 1 times.  A buffer of audio is a sequence of  *)
(* chunks, one chunk per transport reply; the empty sequence is a          *)
(* zero-byte buffer.                                                       *)
(***************************************************************************)
EXTENDS Integers, Sequences, FiniteSets, TLC

VARIABLES
    hasApiKey,    \* process.env.ELEVENLABS_API_KEY is set
    audioCache,   \* the module-level Map of generatePodcastAudioWithRetry
    call,         \* the activations of generatePodcastAudioWithRetry
    log,          \* per activation: the transport calls, their results, the waits
    dialogue,     \* dialogueData of createPodcastFromUrl
    task,         \* task[t][s]: the activation of generateAudioSegment for segment s of turn t
    turn,         \* turn[t]: the activation of generatePodcastAudioWithVoice for turn t
    assembly,     \* the Promise.all of createPodcastFromUrl and what follows it
    split,        \* one call of splitTextIntoSegments: its arguments and what it returned
    speech,       \* the activations of generateSpeechWithProgress with their timers
    segmented     \* the activation of generatePodcastAudio and of generateSegmentedAudio

retryVars == <<audioCache, call, log>>
dialogueVars == <<dialogue, task, turn, assembly>>
restVars == <<split, speech, segmented>>
vars == <<hasApiKey, audioCache, call, log, dialogue, task, turn, assembly, split, speech,
          segmented>>

----------------------------------------------------------------------------
(* Bounds of the model *)

\* the largest maxRetries an activation is started with
MaxRetriesBound == 5
\* the largest number of turns of a dialogue
MaxTurns == 2
\* the largest number of turns of a dialogue that are longer than
\* maxSegmentLength
MaxLongTurns == 1

----------------------------------------------------------------------------
(* Texts *)

Terminators == {".", "!", "?"}
Whitespace == {" ", "\n"}

Run(c, n) == [c |-> c, n |-> n]

RECURSIVE TextLen(_)
\* String.prototype.length
TextLen(t) == IF t = <<>> THEN 0 ELSE Head(t).n + TextLen(Tail(t))

RECURSIVE substring0(_, _)
\* String.prototype.substring(0, k)
substring0(t, k) ==
    IF t = <<>> \/ k <= 0 THEN <<>>
    ELSE IF Head(t).n <= k
         THEN <<Head(t)>> \o substring0(Tail(t), k - Head(t).n)
         ELSE <<Run(Head(t).c, k)>>

\* the 24 characters of "...[truncated for audio]"
TruncationSuffix == <<Run(".", 3), Run("a", 10), Run(" ", 1), Run("a", 3), Run(" ", 1), Run("a", 6)>>

RECURSIVE Match(_, _, _, _)
\* the matches of /[^.!?]+[.!?]+/g from the runs t on; cur is the match being
\* read, phase says how far it is: "start" (nothing read), "body" (in
\* [^.!?]+), "terms" (in [.!?]+)
Match(t, cur, phase, acc) ==
    IF t = <<>> THEN (IF phase = "terms" THEN Append(acc, cur) ELSE acc)
    ELSE IF Head(t).c \in Terminators
         THEN IF phase = "start"
              THEN Match(Tail(t), <<>>, "start", acc)
              ELSE Match(Tail(t), Append(cur, Head(t)), "terms", acc)
         ELSE IF phase = "terms"
              THEN Match(Tail(t), <<Head(t)>>, "body", Append(acc, cur))
              ELSE Match(Tail(t), Append(cur, Head(t)), "body", acc)

\* text.match(/[^.!?]+[.!?]+/g) || [text]
sentencesOf(text) ==
    IF Match(text, <<>>, "start", <<>>) = <<>> THEN <<text>>
    ELSE Match(text, <<>>, "start", <<>>)

RECURSIVE trimStart(_)
trimStart(t) == IF t # <<>> /\ Head(t).c \in Whitespace THEN trimStart(Tail(t)) ELSE t
RECURSIVE trimEnd(_)
trimEnd(t) ==
    IF t # <<>> /\ t[Len(t)].c \in Whitespace THEN trimEnd(SubSeq(t, 1, Len(t) - 1)) ELSE t
\* String.prototype.trim
trim(t) == trimEnd(trimStart(t))

RECURSIVE splitLoopFlushLate(_, _, _, _)
\* the loop flushing only a segment that is already longer than maxLen
splitLoopFlushLate(sentences, maxLen, currentSegment, segments) ==
    IF sentences = <<>>
    THEN (IF currentSegment # <<>> THEN Append(segments, trim(currentSegment)) ELSE segments)
    ELSE IF TextLen(currentSegment) > maxLen /\ currentSegment # <<>>
         THEN splitLoopFlushLate(Tail(sentences), maxLen, Head(sentences), Append(segments, trim(currentSegment)))
         ELSE splitLoopFlushLate(Tail(sentences), maxLen, currentSegment \o Head(sentences), segments)

RECURSIVE splitLoop(_, _, _, _)
\* the for loop of lines 626-633 and the flush of lines 635-637
splitLoop(sentences, maxLen, currentSegment, segments) ==
    IF sentences = <<>>
    THEN (IF currentSegment # <<>> THEN Append(segments, trim(currentSegment)) ELSE segments)
    ELSE IF TextLen(currentSegment) + TextLen(Head(sentences)) > maxLen /\ currentSegment # <<>>
         THEN splitLoop(Tail(sentences), maxLen, Head(sentences), Append(segments, trim(currentSegment)))
         ELSE splitLoop(Tail(sentences), maxLen, currentSegment \o Head(sentences), segments)

\* lines 621-640
splitTextIntoSegments(text, maxLen) == splitLoop(sentencesOf(text), maxLen, <<>>, <<>>)

\* splitTextIntoSegments is not called
NoSplit == split = [pc |-> "none", text |-> <<>>, maxLength |-> 0, segments |-> <<>>]

\* no activation of generateSpeechWithProgress is followed with its timers
NoSpeech == speech = <<>>

\* generatePodcastAudio is not called
NoSegmented ==
    segmented = [pc |-> "none", script |-> <<>>, segments |-> <<>>,
                 result |-> [kind |-> "none", audio |-> <<>>, error |-> ""]]

\* the parts of the program a specification leaves out are not running
RestIdle == NoSplit /\ NoSpeech /\ NoSegmented

----------------------------------------------------------------------------
(* Audio *)

\* the bytes of one transport reply: which transport produced them, for which
\* activation, on which attempt
Chunk(by, who, n) == [by |-> by, who |-> who, n |-> n]

\* a Buffer | null
Null == [some |-> FALSE, buf |-> <<>>]
Some(buf) == [some |-> TRUE, buf |-> buf]

RECURSIVE BufferConcat(_)
\* Buffer.concat(list)
BufferConcat(list) == IF list = <<>> THEN <<>> ELSE Head(list) \o BufferConcat(Tail(list))

----------------------------------------------------------------------------
(* optimizeScriptForAudio *)

\* const maxLength = 9900 of generatePodcastAudioWithRetry
maxLength == 9900
\* the 50 of substring(0, targetLength - 50)
TruncationMargin == 50

\* what the agent run may hand back for a script over the target length: a
\* script that fits, a script that still exceeds the target, or the script
\* unchanged
LlmOutputs(script, targetLength) ==
    { substring0(script, targetLength - 100),
      substring0(script, targetLength),
      substring0(script, targetLength + 1),
      script }

\* lines 66-108, given the agent's output
optimizeScriptForAudio(script, targetLength, optimizedScript) ==
    IF TextLen(script) <= targetLength THEN script
    ELSE IF TextLen(optimizedScript) > targetLength
         THEN substring0(optimizedScript, targetLength - TruncationMargin) \o TruncationSuffix
         ELSE optimizedScript

----------------------------------------------------------------------------
(* generateSpeechWithProgress: the SDK transport raced against its timeout *)

TimeoutMsg == "Audio generation timeout after 300s"
NoAudioMsg == "No audio data in response"
UnsupportedMsg == "Unsupported audio format from ElevenLabs"
RangeErrorMsg == "Invalid typed array length: -Infinity"
SdkErrorMsg == "sdk error"
DefaultFailMsg == "Audio generation failed"

\* what Promise.race([audioPromise, timeoutPromise]) settles with
SdkOutcomes ==
    { "uint8ArrayData",       \* result.audio.uint8ArrayData with bytes
      "emptyUint8ArrayData",  \* result.audio.uint8ArrayData with no keys
      "buffer",               \* result.audio is a Buffer or Uint8Array with bytes
      "emptyBuffer",          \* result.audio is a zero-length Buffer or Uint8Array
      "noAudio",              \* result.audio is undefined
      "unsupported",          \* result.audio is some other object
      "rejected",             \* generateSpeech rejects
      "timeout" }             \* the 300 s timer fires first

\* the AudioGenerationResult of lines 280-341
generateSpeechWithProgress(outcome, chunk) ==
    CASE outcome = "uint8ArrayData" -> [success |-> TRUE, audio |-> Some(<<chunk>>), error |-> ""]
      [] outcome = "emptyUint8ArrayData" -> [success |-> FALSE, audio |-> Null, error |-> RangeErrorMsg]
      [] outcome = "buffer" -> [success |-> TRUE, audio |-> Some(<<chunk>>), error |-> ""]
      [] outcome = "emptyBuffer" -> [success |-> TRUE, audio |-> Some(<<>>), error |-> ""]
      [] outcome = "noAudio" -> [success |-> FALSE, audio |-> Null, error |-> NoAudioMsg]
      [] outcome = "unsupported" -> [success |-> FALSE, audio |-> Null, error |-> UnsupportedMsg]
      [] outcome = "rejected" -> [success |-> FALSE, audio |-> Null, error |-> SdkErrorMsg]
      [] outcome = "timeout" -> [success |-> FALSE, audio |-> Null, error |-> TimeoutMsg]

\* error.message.includes('timeout'): of the messages above only the timer's
\* rejection holds the word
includesTimeout(message) == message = TimeoutMsg

----------------------------------------------------------------------------
(* generatePodcastAudioDirectAPI: the raw HTTP transport *)

NoApiKeyMsg == "ELEVENLABS_API_KEY environment variable is required"
HttpErrorMsg == "ElevenLabs API error"
FetchErrorMsg == "fetch failed"

\* what the fetch of lines 127-154 may do
DirectOutcomes == {"body", "emptyBody", "notOk", "fetchRejected"}

\* lines 118-158: [ok, audio, error]
generatePodcastAudioDirectAPI(apiKey, outcome, chunk) ==
    IF ~apiKey THEN [ok |-> FALSE, audio |-> <<>>, error |-> NoApiKeyMsg]
    ELSE CASE outcome = "body" -> [ok |-> TRUE, audio |-> <<chunk>>, error |-> ""]
           [] outcome = "emptyBody" -> [ok |-> TRUE, audio |-> <<>>, error |-> ""]
           [] outcome = "notOk" -> [ok |-> FALSE, audio |-> <<>>, error |-> HttpErrorMsg]
           [] outcome = "fetchRejected" -> [ok |-> FALSE, audio |-> <<>>, error |-> FetchErrorMsg]

----------------------------------------------------------------------------
(* generatePodcastAudioWithRetry *)

CallIds == {1, 2, 3}

\* process.env.ELEVENLABS_VOICE_ID || "rachel": one value per process
voiceId == "rachel"

\* getScriptHash(script + voiceId): md5 taken as collision-free on the
\* model's scripts
getScriptHash(script, voice) == [md5 |-> <<script, voice>>]

\* Math.min(5000 * attempt, 15000)
BaseDelay == 5000
DelayCap == 15000
Min(a, b) == IF a <= b THEN a ELSE b
\* the backoff without its cap
delayUncapped(attempt) == BaseDelay * attempt
delay(attempt) == Min(BaseDelay * attempt, DelayCap)

\* one entry of an activation's log
E(ev, n, res, msg, ms, len) ==
    [ev |-> ev, n |-> n, res |-> res, msg |-> msg, ms |-> ms, len |-> len]
SdkCall(n, text) == E("sdk_call", n, "", "", 0, TextLen(text))
SdkResult(n, ok, msg) == E("sdk_result", n, IF ok THEN "ok" ELSE "error", msg, 0, 0)
DirectCall(n, text) == E("direct_call", n, "", "", 0, TextLen(text))
DirectResult(n, ok, msg) == E("direct_result", n, IF ok THEN "ok" ELSE "error", msg, 0, 0)
Wait(n, ms) == E("wait", n, "", "", ms, 0)
CacheHit == E("cache_hit", 0, "", "", 0, 0)

NoResult == [kind |-> "none", audio |-> <<>>, error |-> ""]
Returned(buf) == [kind |-> "returned", audio |-> buf, error |-> ""]
\* `Audio generation failed after ${maxRetries} attempts. Last error: ${lastError?.message}`
Thrown(lastError) == [kind |-> "thrown", audio |-> <<>>, error |-> lastError]

LlmErrorMsg == "agent run failed"

\* an activation before it is called
NewCall(script, maxRetries) ==
    [pc |-> "idle", script |-> script, maxRetries |-> maxRetries,
     optimizedScript |-> <<>>, attempt |-> 0, lastError |-> "null",
     audioBuffer |-> Null, result |-> NoResult]
Absent == [NewCall(<<>>, 0) EXCEPT !.pc = "absent"]

\* lines 170-179: the cache lookup, then the await of optimizeScriptForAudio
Call(c) ==
    /\ call[c].pc = "idle"
    /\ LET cacheKey == getScriptHash(call[c].script, voiceId) IN
       IF cacheKey \in DOMAIN audioCache
       THEN /\ call' = [call EXCEPT ![c].pc = "done",
                                    ![c].result = Returned(audioCache[cacheKey])]
            /\ log' = [log EXCEPT ![c] = Append(@, CacheHit)]
       ELSE /\ call' = [call EXCEPT ![c].pc = "optimize"]
            /\ log' = log
    /\ UNCHANGED <<hasApiKey, audioCache>>

\* lines 223-229 with audioBuffer set: cache the buffer and return it
ReturnAudio(c, r, lg) ==
    /\ audioCache' = [k \in DOMAIN audioCache \cup {getScriptHash(r.script, voiceId)} |->
                        IF k = getScriptHash(r.script, voiceId) THEN r.audioBuffer.buf
                        ELSE audioCache[k]]
    /\ call' = [call EXCEPT ![c] = [r EXCEPT !.pc = "done", !.result = Returned(r.audioBuffer.buf)]]
    /\ log' = [log EXCEPT ![c] = lg]

\* line 189: the next iteration's call of generateSpeechWithProgress
TryPrimary(c, r, lg) ==
    /\ call' = [call EXCEPT ![c] = [r EXCEPT !.pc = "sdk"]]
    /\ log' = [log EXCEPT ![c] = Append(lg, SdkCall(r.attempt, r.optimizedScript))]
    /\ UNCHANGED audioCache

\* the loop going round once more after the last attempt
anotherAttemptOffByOne(attempt, maxRetries) == attempt <= maxRetries
\* lines 184 and 215: attempt < maxRetries, so the loop waits and goes round
\* again with attempt + 1 <= maxRetries
anotherAttempt(attempt, maxRetries) == attempt < maxRetries

\* lines 215-225: the end of the catch block of iteration r.attempt
EndOfCatch(c, r, lg) ==
    IF anotherAttempt(r.attempt, r.maxRetries)
    THEN /\ call' = [call EXCEPT ![c] = [r EXCEPT !.pc = "wait"]]
         /\ log' = [log EXCEPT ![c] = Append(lg, Wait(r.attempt, delay(r.attempt)))]
         /\ UNCHANGED audioCache
    ELSE \* attempt++ ends the loop; audioBuffer is null
         /\ call' = [call EXCEPT ![c] = [r EXCEPT !.pc = "done", !.attempt = r.attempt + 1,
                                                  !.result = Thrown(r.lastError)]]
         /\ log' = [log EXCEPT ![c] = lg]
         /\ UNCHANGED audioCache

\* the escalation without the timeout test
escalatesOnLastAttemptOnly(attempt, maxRetries, message) == attempt = maxRetries
\* line 204: attempt === maxRetries || error.message.includes('timeout')
escalates(attempt, maxRetries, message) ==
    attempt = maxRetries \/ includesTimeout(message)

\* line 179 returns (or the agent run throws), then the first iteration starts
OptimizeReturn(c) ==
    /\ call[c].pc = "optimize"
    /\ \/ \E out \in LlmOutputs(call[c].script, maxLength) :
             TryPrimary(c, [call[c] EXCEPT
                               !.optimizedScript = optimizeScriptForAudio(call[c].script, maxLength, out),
                               !.attempt = 1], log[c])
       \/ /\ TextLen(call[c].script) > maxLength
          /\ call' = [call EXCEPT ![c].pc = "done", ![c].result = Thrown(LlmErrorMsg)]
          /\ UNCHANGED <<audioCache, log>>
    /\ UNCHANGED hasApiKey

\* lines 189-213: generateSpeechWithProgress returns
SdkSettle(c) ==
    /\ call[c].pc = "sdk"
    /\ \E outcome \in SdkOutcomes :
         LET r == call[c]
             result == generateSpeechWithProgress(outcome, Chunk("sdk", <<c>>, r.attempt))
             message == IF result.error = "" THEN DefaultFailMsg ELSE result.error
         IN IF result.success /\ result.audio.some
            THEN ReturnAudio(c, [r EXCEPT !.audioBuffer = result.audio],
                             Append(log[c], SdkResult(r.attempt, TRUE, "")))
            ELSE LET r2 == [r EXCEPT !.lastError = message]
                     lg == Append(log[c], SdkResult(r.attempt, FALSE, message))
                 IN IF escalates(r.attempt, r.maxRetries, message)
                    THEN /\ call' = [call EXCEPT ![c] = [r2 EXCEPT !.pc = "direct"]]
                         /\ log' = [log EXCEPT ![c] = Append(lg, DirectCall(r.attempt, r.optimizedScript))]
                         /\ UNCHANGED audioCache
                    ELSE EndOfCatch(c, r2, lg)
    /\ UNCHANGED hasApiKey

\* the catch of lines 209-212 leaving lastError as the primary set it
lastErrorKept(lastError, directError) == lastError
\* line 211: lastError = directError
lastErrorAfterDirect(lastError, directError) == directError

\* lines 206-221: generatePodcastAudioDirectAPI returns or throws
DirectSettle(c) ==
    /\ call[c].pc = "direct"
    /\ \E outcome \in DirectOutcomes :
         LET r == call[c]
             res == generatePodcastAudioDirectAPI(hasApiKey, outcome, Chunk("direct", <<c>>, r.attempt))
         IN IF res.ok
            THEN ReturnAudio(c, [r EXCEPT !.audioBuffer = Some(res.audio)],
                             Append(log[c], DirectResult(r.attempt, TRUE, "")))
            ELSE EndOfCatch(c, [r EXCEPT !.lastError = lastErrorAfterDirect(r.lastError, res.error)],
                            Append(log[c], DirectResult(r.attempt, FALSE, res.error)))
    /\ UNCHANGED hasApiKey

\* line 218: the backoff timer fires, attempt++ and the loop goes on
BackoffElapsed(c) ==
    /\ call[c].pc = "wait"
    /\ TryPrimary(c, [call[c] EXCEPT !.attempt = call[c].attempt + 1], log[c])
    /\ UNCHANGED hasApiKey

----------------------------------------------------------------------------
(* Scripts *)

\* "Hello world. This is a test."
ScriptShort == <<Run("a", 5), Run(" ", 1), Run("a", 5), Run(".", 1), Run(" ", 1), Run("a", 4),
                 Run(" ", 1), Run("a", 2), Run(" ", 1), Run("a", 1), Run(" ", 1), Run("a", 4), Run(".", 1)>>
\* a script of 12000 characters: 3 sentences of 4000
ScriptOverLimit == <<Run("a", 3999), Run(".", 1), Run("b", 3999), Run(".", 1), Run("c", 3999), Run(".", 1)>>
Scripts == {ScriptShort, ScriptOverLimit}

----------------------------------------------------------------------------
(* The dialogue path: createPodcastFromUrl -> generatePodcastAudioWithVoice  *)
(* -> generateAudioSegment                                                  *)

\* const maxSegmentLength = 2500 of generatePodcastAudioWithVoice
maxSegmentLength == 2500

speakerAVoiceId == "gmnazjXOFoOcWA59sd5m"
speakerBVoiceId == "1kNciG1jHVSuFBPoxdRZ"

IdleAssembly == [pc |-> "idle", order |-> <<>>, result |-> NoResult]

\* createPodcastFromUrl is not running
NoDialogue ==
    /\ dialogue = <<>>
    /\ task = <<>>
    /\ turn = <<>>
    /\ assembly = IdleAssembly

\* Promise.all over settled promises: the values by index, whatever the order
\* they were fulfilled in
promiseAllInCompletionOrder(values, order) == [i \in 1..Len(order) |-> values[order[i]]]
promiseAll(values, order) == values

\* lines 605-608: generateAudioSegment calls generatePodcastAudioDirectAPI
NewTask(text) ==
    [pc |-> "direct", text |-> text, audio |-> <<>>, log |-> <<DirectCall(1, text)>>]

\* lines 586-601: the segments generatePodcastAudioWithVoice makes calls for
segmentsOf(text) ==
    IF TextLen(text) > maxSegmentLength THEN splitTextIntoSegments(text, maxSegmentLength)
    ELSE <<text>>

\* lines 483-486: every turn is launched, and every segment of every turn
StartAssembly ==
    /\ assembly.pc = "idle"
    /\ dialogue # <<>>
    /\ task' = [t \in DOMAIN dialogue |->
                  [s \in DOMAIN segmentsOf(dialogue[t].text) |->
                      NewTask(segmentsOf(dialogue[t].text)[s])]]
    /\ turn' = [t \in DOMAIN dialogue |-> [pc |-> "pending", order |-> <<>>, audio |-> <<>>]]
    /\ assembly' = [assembly EXCEPT !.pc = "awaiting"]
    /\ UNCHANGED <<hasApiKey, dialogue, retryVars>>

\* lines 597-598 (and 601): a segment that fulfilled without counting the
\* rejected ones
turnAfterIgnoringRejections(tr, tasks, s) ==
    IF tr.pc # "pending" THEN tr
    ELSE LET order == IF tasks[s].pc = "fulfilled" THEN Append(tr.order, s) ELSE tr.order IN
         IF \A x \in DOMAIN tasks : tasks[x].pc \in {"fulfilled", "rejected"}
         THEN [pc |-> "fulfilled", order |-> order,
               audio |-> BufferConcat([x \in DOMAIN tasks |->
                                          IF tasks[x].pc = "fulfilled" THEN tasks[x].audio ELSE <<>>])]
         ELSE [tr EXCEPT !.order = order]

\* lines 597-598 (and 601): the turn's promise once segment s has settled;
\* tasks are the turn's tasks after that
turnAfter(tr, tasks, s) ==
    IF tr.pc # "pending" THEN tr
    ELSE IF tasks[s].pc = "rejected" THEN [tr EXCEPT !.pc = "rejected"]
    ELSE LET order == Append(tr.order, s) IN
         IF \A x \in DOMAIN tasks : tasks[x].pc = "fulfilled"
         THEN [pc |-> "fulfilled", order |-> order,
               audio |-> BufferConcat(promiseAll([x \in DOMAIN tasks |-> tasks[x].audio], order))]
         ELSE [tr EXCEPT !.order = order]

\* lines 485-490: the try/catch around each turn
audioSegmentOf(tr) == IF tr.pc = "fulfilled" THEN Some(tr.audio) ELSE Null

AllFailedMsg == "All audio segments failed to generate"

\* lines 494-501 without the test of validSegments.length
assembleAlways(audioSegments) ==
    Returned(BufferConcat([i \in 1..Len(SelectSeq(audioSegments, LAMBDA x : x.some)) |->
                              SelectSeq(audioSegments, LAMBDA x : x.some)[i].buf]))

\* lines 494-501 with a failed turn failing the dialogue
assembleAllOrNothing(audioSegments) ==
    IF \A i \in DOMAIN audioSegments : audioSegments[i].some
    THEN Returned(BufferConcat([i \in DOMAIN audioSegments |-> audioSegments[i].buf]))
    ELSE Thrown(AllFailedMsg)

\* lines 494-501: filter out the nulls, concatenate, or throw
assemble(audioSegments) ==
    LET validSegments == SelectSeq(audioSegments, LAMBDA x : x.some) IN
    IF Len(validSegments) > 0
    THEN Returned(BufferConcat([i \in 1..Len(validSegments) |-> validSegments[i].buf]))
    ELSE Thrown(AllFailedMsg)

\* lines 483-501: the outer Promise.all once turn t may have settled
assemblyAfter(as, turnBefore, turns, t) ==
    IF as.pc # "awaiting" \/ turnBefore.pc # "pending" \/ turns[t].pc = "pending" THEN as
    ELSE LET order == Append(as.order, t) IN
         IF \A x \in DOMAIN turns : turns[x].pc # "pending"
         THEN [pc |-> "done", order |-> order,
               result |-> assemble(promiseAll([x \in DOMAIN turns |-> audioSegmentOf(turns[x])], order))]
         ELSE [as EXCEPT !.order = order]

RECURSIVE joinTexts(_)
\* line 463: dialogueData.map(item => item.text).join('\n\n')
joinTexts(items) ==
    IF items = <<>> THEN <<>>
    ELSE IF Len(items) = 1 THEN items[1].text
    ELSE items[1].text \o <<Run("\n", 2)>> \o joinTexts(Tail(items))

\* line 511: return { script, audio, dialogue: dialogueData }
createPodcastFromUrlReturn(dialogueData, audio) ==
    [script |-> joinTexts(dialogueData), audio |-> audio, dialogue |-> dialogueData]

\* segment s of turn t settles as newTask: the reactions of lines 597-598,
\* 485-490 and 494-501 run before any other event
Settle(t, s, newTask) ==
    LET tasks == [task[t] EXCEPT ![s] = newTask]
        newTurn == IF newTask.pc \in {"fulfilled", "rejected"} THEN turnAfter(turn[t], tasks, s)
                   ELSE turn[t]
        turns == [turn EXCEPT ![t] = newTurn]
    IN /\ task' = [task EXCEPT ![t] = tasks]
       /\ turn' = turns
       /\ assembly' = assemblyAfter(assembly, turn[t], turns, t)

\* lines 609-612 without the second transport
directFailedNoFallback(k, error) ==
    [k EXCEPT !.pc = "rejected", !.log = Append(k.log, DirectResult(1, FALSE, ""))]

\* lines 609-612: the direct API failed, try generateSpeechWithProgress
directFailed(k, error) ==
    [k EXCEPT !.pc = "sdk",
              !.log = k.log \o <<DirectResult(1, FALSE, ""), SdkCall(1, k.text)>>]

\* lines 606-612: generateAudioSegment once generatePodcastAudioDirectAPI has
\* returned or thrown
afterDirect(k, res) ==
    IF res.ok
    THEN [k EXCEPT !.pc = "fulfilled", !.audio = res.audio,
                   !.log = Append(k.log, DirectResult(1, TRUE, ""))]
    ELSE directFailed(k, res.error)

\* lines 612-616: generateAudioSegment once generateSpeechWithProgress has
\* returned
afterSdk(k, result) ==
    IF result.success /\ result.audio.some
    THEN [k EXCEPT !.pc = "fulfilled", !.audio = result.audio.buf,
                   !.log = Append(k.log, SdkResult(1, TRUE, ""))]
    ELSE [k EXCEPT !.pc = "rejected", !.log = Append(k.log, SdkResult(1, FALSE, ""))]

\* the direct API call of segment s of turn t settles
SegDirectSettle(t, s) ==
    /\ t \in DOMAIN task /\ s \in DOMAIN task[t]
    /\ task[t][s].pc = "direct"
    /\ \E newTask \in { afterDirect(task[t][s],
                            generatePodcastAudioDirectAPI(hasApiKey, outcome, Chunk("direct", <<t, s>>, 1))) :
                        outcome \in DirectOutcomes } :
         Settle(t, s, newTask)
    /\ UNCHANGED <<hasApiKey, dialogue, retryVars>>

\* the SDK call of segment s of turn t settles
SegSdkSettle(t, s) ==
    /\ t \in DOMAIN task /\ s \in DOMAIN task[t]
    /\ task[t][s].pc = "sdk"
    /\ \E newTask \in { afterSdk(task[t][s],
                            generateSpeechWithProgress(outcome, Chunk("sdk", <<t, s>>, 1))) :
                        outcome \in SdkOutcomes } :
         Settle(t, s, newTask)
    /\ UNCHANGED <<hasApiKey, dialogue, retryVars>>

\* "Hi"
TurnShort == <<Run("a", 2)>>
\* two sentences of 1500 characters
TurnTwoSegments == <<Run("a", 1499), Run(".", 1), Run(" ", 1), Run("b", 1498), Run("!", 1)>>
\* one sentence of 9901 characters
TurnOneLongSentence == <<Run("a", 9900), Run(".", 1)>>
TurnTexts == {TurnShort, TurnTwoSegments, TurnOneLongSentence}

\* lines 559-562, 574-576: the speakers alternate
voiceOf(index) == IF index % 2 = 1 THEN speakerAVoiceId ELSE speakerBVoiceId

InitDialogue ==
    /\ hasApiKey \in BOOLEAN
    /\ audioCache = << >>
    /\ call = [c \in CallIds |-> Absent]
    /\ log = [c \in CallIds |-> <<>>]
    /\ \E n \in 1..MaxTurns : \E texts \in [1..n -> TurnTexts] :
         /\ Cardinality({t \in 1..n : TextLen(texts[t]) > maxSegmentLength}) <= MaxLongTurns
         /\ dialogue = [t \in 1..n |-> [text |-> texts[t], voice_id |-> voiceOf(t)]]
    /\ task = <<>>
    /\ turn = <<>>
    /\ assembly = IdleAssembly
    /\ RestIdle

TurnIds == 1..MaxTurns
SegmentIds == UNION {DOMAIN segmentsOf(text) : text \in TurnTexts}

NextDialogue ==
    /\ \/ StartAssembly
       \/ \E t \in TurnIds, s \in SegmentIds :
             \/ SegDirectSettle(t, s)
             \/ SegSdkSettle(t, s)
    /\ UNCHANGED restVars

SpecDialogue == InitDialogue /\ [][NextDialogue]_vars

----------------------------------------------------------------------------
(* One activation of generatePodcastAudioWithRetry *)

InitRetry ==
    /\ hasApiKey \in BOOLEAN
    /\ audioCache = << >>
    /\ \E script \in Scripts, maxRetries \in 1..MaxRetriesBound :
         call = [c \in CallIds |-> IF c = 1 THEN NewCall(script, maxRetries) ELSE Absent]
    /\ log = [c \in CallIds |-> <<>>]
    /\ NoDialogue
    /\ RestIdle

NextRetry ==
    /\ \E c \in CallIds :
          \/ Call(c)
          \/ OptimizeReturn(c)
          \/ SdkSettle(c)
          \/ DirectSettle(c)
          \/ BackoffElapsed(c)
    /\ UNCHANGED <<dialogueVars, restVars>>

SpecRetry == InitRetry /\ [][NextRetry]_vars

\* the largest maxRetries of an activation whose termination is checked
MaxRetriesLive == 4

InitRetryLive ==
    /\ InitRetry
    /\ call[1].maxRetries <= MaxRetriesLive

\* every transport call settles, every backoff timer fires and every await
\* resumes: a step that can be taken is taken in the end
SpecRetryFair == InitRetryLive /\ [][NextRetry]_vars /\ WF_vars(NextRetry)

----------------------------------------------------------------------------
(* Two activations of generatePodcastAudioWithRetry sharing audioCache, as   *)
(* the parallel segments of generateSegmentedAudio are                      *)

\* generatePodcastAudioWithRetry(segment, 2)
SegmentRetries == 2

InitCache ==
    /\ hasApiKey \in BOOLEAN
    /\ audioCache = << >>
    /\ \E s1 \in Scripts, s2 \in Scripts :
         call = [c \in CallIds |-> IF c = 1 THEN NewCall(s1, SegmentRetries)
                                   ELSE IF c = 2 THEN NewCall(s2, SegmentRetries)
                                   ELSE Absent]
    /\ log = [c \in CallIds |-> <<>>]
    /\ NoDialogue
    /\ RestIdle

SpecCache == InitCache /\ [][NextRetry]_vars

----------------------------------------------------------------------------
(* generatePodcastAudio and generateSegmentedAudio: the single-voice path    *)

\* script.length > 3000 of generatePodcastAudio
SegmentedThreshold == 3000
\* generatePodcastAudioWithRetry(script, 3) of generatePodcastAudio
SingleRetries == 3
\* the activation generatePodcastAudioWithRetry(script, ...) of the whole
\* script; the segments' activations are 1, 2, ... in the order of the segments
WholeScriptCall == 3

\* two sentences of 1600 characters
ScriptTwoSegments == <<Run("a", 1599), Run(".", 1), Run("b", 1599), Run("!", 1)>>
\* one sentence of 3001 characters
ScriptOneSentence == <<Run("a", 3000), Run(".", 1)>>
PodcastScripts == {ScriptShort, ScriptTwoSegments, ScriptOneSentence}

InitSegmented ==
    /\ hasApiKey \in BOOLEAN
    /\ audioCache = << >>
    /\ call = [c \in CallIds |-> Absent]
    /\ log = [c \in CallIds |-> <<>>]
    /\ NoDialogue
    /\ NoSplit
    /\ NoSpeech
    /\ \E script \in PodcastScripts :
         segmented = [pc |-> "called", script |-> script, segments |-> <<>>, result |-> NoResult]

\* lines 344-351 and 353-380: a short script goes to
\* generatePodcastAudioWithRetry(script, 3); a long one is cut into segments
\* and every segment's generatePodcastAudioWithRetry(segment, 2) is started
GeneratePodcastAudio ==
    /\ segmented.pc = "called"
    /\ IF TextLen(segmented.script) > SegmentedThreshold
       THEN LET segments == splitTextIntoSegments(segmented.script, maxSegmentLength) IN
            /\ segmented' = [segmented EXCEPT !.pc = "awaiting", !.segments = segments]
            /\ call' = [c \in CallIds |-> IF c \in DOMAIN segments
                                          THEN NewCall(segments[c], SegmentRetries) ELSE Absent]
       ELSE /\ segmented' = [segmented EXCEPT !.pc = "single"]
            /\ call' = [call EXCEPT ![WholeScriptCall] = NewCall(segmented.script, SingleRetries)]
    /\ UNCHANGED <<hasApiKey, audioCache, log, dialogueVars, split, speech>>

\* lines 391-394 rethrowing the segment's error
segmentedAfterRethrow(sg, calls, c) ==
    IF sg.pc = "awaiting" /\ c \in DOMAIN sg.segments /\ calls[c].pc = "done"
    THEN IF calls[c].result.kind = "thrown"
         THEN [sg EXCEPT !.pc = "done", !.result = calls[c].result]
         ELSE IF \A x \in DOMAIN sg.segments : calls[x].result.kind = "returned"
         THEN [sg EXCEPT !.pc = "done",
                         !.result = Returned(BufferConcat([x \in DOMAIN sg.segments |->
                                                              calls[x].result.audio]))]
         ELSE sg
    ELSE sg

\* lines 351 and 382-394 once activation c has made a step to calls: the
\* Promise.all of the segments rejects with the first segment that throws and
\* fulfils when the last one has returned; the whole script's activation
\* settles generatePodcastAudio
segmentedAfter(sg, calls, c) ==
    IF sg.pc = "awaiting" /\ c \in DOMAIN sg.segments /\ calls[c].pc = "done"
    THEN IF calls[c].result.kind = "thrown"
         THEN [sg EXCEPT !.pc = "rejected"]
         ELSE IF \A x \in DOMAIN sg.segments : calls[x].result.kind = "returned"
         THEN [sg EXCEPT !.pc = "done",
                         !.result = Returned(BufferConcat([x \in DOMAIN sg.segments |->
                                                              calls[x].result.audio]))]
         ELSE sg
    ELSE IF sg.pc \in {"fallback", "single"} /\ c = WholeScriptCall /\ calls[c].pc = "done"
    THEN [sg EXCEPT !.pc = "done", !.result = calls[c].result]
    ELSE sg

\* lines 391-394: the catch starts generatePodcastAudioWithRetry(script, 2)
SegmentedCatch ==
    /\ segmented.pc = "rejected"
    /\ segmented' = [segmented EXCEPT !.pc = "fallback"]
    /\ call' = [call EXCEPT ![WholeScriptCall] = NewCall(segmented.script, SegmentRetries)]
    /\ log' = [log EXCEPT ![WholeScriptCall] = <<>>]
    /\ UNCHANGED <<hasApiKey, audioCache, dialogueVars, split, speech>>

\* the errors the transports answer with while generatePodcastAudio runs: one
\* failure of each transport that is no timeout, the timeout, and the missing
\* API key; the other failures differ from these in their message only
SegmentedErrors == {"null", NoAudioMsg, TimeoutMsg, HttpErrorMsg, NoApiKeyMsg}

NextSegmented ==
    \/ GeneratePodcastAudio
    \/ SegmentedCatch
    \/ /\ \E c \in CallIds :
             /\ \/ Call(c)
                \/ OptimizeReturn(c)
                \/ SdkSettle(c)
                \/ DirectSettle(c)
                \/ BackoffElapsed(c)
             /\ call'[c].lastError \in SegmentedErrors
             /\ segmented' = segmentedAfter(segmented, call', c)
       /\ UNCHANGED <<dialogueVars, split, speech>>

SpecSegmented == InitSegmented /\ [][NextSegmented]_vars

----------------------------------------------------------------------------
(* splitTextIntoSegments on its own: every text of up to MaxTextLen          *)
(* characters over SplitAlphabet, every maxLength up to MaxSplitLength       *)

\* the longest text splitTextIntoSegments is called with
MaxTextLen == 9
\* the largest maxLength splitTextIntoSegments is called with
MaxSplitLength == 4

\* a letter, a blank and a sentence terminator
SplitAlphabet == {"a", " ", "."}
SplitTexts ==
    UNION {[1..n -> {Run(c, 1) : c \in SplitAlphabet}] : n \in 0..MaxTextLen}

InitSplit ==
    /\ hasApiKey = FALSE
    /\ audioCache = << >>
    /\ call = [c \in CallIds |-> Absent]
    /\ log = [c \in CallIds |-> <<>>]
    /\ NoDialogue
    /\ \E text \in SplitTexts, maxLen \in 1..MaxSplitLength :
         split = [pc |-> "called", text |-> text, maxLength |-> maxLen, segments |-> <<>>]
    /\ NoSpeech
    /\ NoSegmented

\* lines 621-640: the call returns its segments
SplitReturn ==
    /\ split.pc = "called"
    /\ split' = [split EXCEPT !.pc = "returned",
                              !.segments = splitTextIntoSegments(split.text, split.maxLength)]
    /\ UNCHANGED <<hasApiKey, retryVars, dialogueVars, speech, segmented>>

NextSplit == SplitReturn

SpecSplit == InitSplit /\ [][NextSplit]_vars

----------------------------------------------------------------------------
(* generateSpeechWithProgress with its timers: the progress interval of      *)
(* lines 240-249, the timeout timer of lines 271-277 and the race of line    *)
(* 280, for activations that run side by side as the segments of a script do *)

\* the number of activations of generateSpeechWithProgress
MaxSpeechCalls == 2
SpeechIds == 1..MaxSpeechCalls

NoSpeechResult == [success |-> FALSE, audio |-> Null, error |-> ""]

\* an activation before it is called
NewSpeech ==
    [pc |-> "idle", audioPromise |-> "none", timeoutTimer |-> "none",
     progressInterval |-> "none", result |-> NoSpeechResult, lateTimeouts |-> 0]

InitSpeech ==
    /\ hasApiKey = FALSE
    /\ audioCache = << >>
    /\ call = [c \in CallIds |-> Absent]
    /\ log = [c \in CallIds |-> <<>>]
    /\ NoDialogue
    /\ NoSplit
    /\ NoSegmented
    /\ speech = [i \in SpeechIds |-> NewSpeech]

\* lines 240-280: setInterval, generateSpeech, setTimeout(..., timeoutMs),
\* then the await of Promise.race
SpeechStart(i) ==
    /\ i \in DOMAIN speech
    /\ speech[i].pc = "idle"
    /\ speech' = [speech EXCEPT ![i] = [@ EXCEPT !.pc = "racing",
                                                 !.progressInterval = "active",
                                                 !.audioPromise = "pending",
                                                 !.timeoutTimer = "pending"]]
    /\ UNCHANGED <<hasApiKey, retryVars, dialogueVars, split, segmented>>

\* generateSpeech settles. While the race is on, lines 282-341 run:
\* clearInterval, then the result is made and returned; after the timeout has
\* won the race the settlement is discarded
SpeechSettle(i) ==
    /\ i \in DOMAIN speech
    /\ speech[i].audioPromise = "pending"
    /\ \E outcome \in SdkOutcomes \ {"timeout"} :
         speech' = [speech EXCEPT ![i] =
                       IF @.pc = "racing"
                       THEN [@ EXCEPT !.pc = "returned",
                                      !.audioPromise = "settled",
                                      !.progressInterval = "cleared",
                                      !.result = generateSpeechWithProgress(outcome, Chunk("sdk", <<i>>, 1))]
                       ELSE [@ EXCEPT !.audioPromise = "settled"]]
    /\ UNCHANGED <<hasApiKey, retryVars, dialogueVars, split, segmented>>

\* lines 272-276: timeoutMs after the call the timer fires, whether or not
\* the activation has returned: no clearTimeout is ever called. The callback
\* clears the interval, logs the timeout and rejects timeoutPromise; while
\* the race is on, the catch of lines 332-341 returns the failure
SpeechTimeout(i) ==
    /\ i \in DOMAIN speech
    /\ speech[i].timeoutTimer = "pending"
    /\ speech' = [speech EXCEPT ![i] =
                      IF @.pc = "racing"
                      THEN [@ EXCEPT !.pc = "returned",
                                     !.timeoutTimer = "fired",
                                     !.progressInterval = "cleared",
                                     !.result = generateSpeechWithProgress("timeout", Chunk("sdk", <<i>>, 1))]
                      ELSE [@ EXCEPT !.timeoutTimer = "fired",
                                     !.lateTimeouts = @ + 1]]
    /\ UNCHANGED <<hasApiKey, retryVars, dialogueVars, split, segmented>>

NextSpeech ==
    \E i \in SpeechIds :
        \/ SpeechStart(i)
        \/ SpeechSettle(i)
        \/ SpeechTimeout(i)

SpecSpeech == InitSpeech /\ [][NextSpeech]_vars

----------------------------------------------------------------------------
(* Properties of the retry loop *)

Indices(lg, ev) == {i \in DOMAIN lg : lg[i].ev = ev}
Waits(lg) == [i \in 1..Len(SelectSeq(lg, LAMBDA e : e.ev = "wait")) |->
                 SelectSeq(lg, LAMBDA e : e.ev = "wait")[i].ms]
SdkResults(lg) == [i \in 1..Len(SelectSeq(lg, LAMBDA e : e.ev = "sdk_result")) |->
                      SelectSeq(lg, LAMBDA e : e.ev = "sdk_result")[i].res]

\* C1: within one activation of generatePodcastAudioWithRetry the fallback
\* transport is invoked at most once, and a failed fallback invocation is the
\* last thing the activation does: it ends with the error thrown, with no wait
\* and no transport call after it.
C1_FallbackAtMostOnce ==
    \A c \in CallIds :
        /\ Cardinality(Indices(log[c], "direct_call")) <= 1
        /\ \A i \in Indices(log[c], "direct_result") :
              log[c][i].res = "error" =>
                  /\ i = Len(log[c])
                  /\ call[c].result.kind = "thrown"

\* C2: a primary attempt that ends in the timeout, on any attempt n, is
\* followed at once by the call of the fallback transport on the same attempt:
\* no wait and no primary call lies between them.
C2_TimeoutEscalatesAtOnce ==
    \A c \in CallIds :
        \A i \in Indices(log[c], "sdk_result") :
            log[c][i].msg = TimeoutMsg =>
                /\ i < Len(log[c])
                /\ log[c][i + 1].ev = "direct_call"
                /\ log[c][i + 1].n = log[c][i].n

\* C2 happens: attempt 1 of an activation with retries left timed out and the
\* fallback was called next
C2_Witness ==
    \E c \in CallIds :
        /\ call[c].maxRetries >= 2
        /\ Len(log[c]) >= 3
        /\ log[c][2].ev = "sdk_result" /\ log[c][2].n = 1 /\ log[c][2].msg = TimeoutMsg
        /\ log[c][3].ev = "direct_call"

\* C3: a primary attempt n < maxRetries that fails with an error other than
\* the timeout is followed by a wait of min(5000 * n, 15000) ms and then by
\* primary attempt n + 1, with no fallback call; and with maxRetries = 3 a
\* primary that fails twice (not by timeout) and then succeeds returns the
\* third attempt's audio after waits of 5000 and 10000 ms.
C3_BackoffThenNextPrimary ==
    \A c \in CallIds :
        /\ \A i \in Indices(log[c], "sdk_result") :
              LET e == log[c][i] IN
              (e.res = "error" /\ e.msg # TimeoutMsg /\ e.n < call[c].maxRetries) =>
                  /\ i < Len(log[c])
                  /\ log[c][i + 1].ev = "wait"
                  /\ log[c][i + 1].ms = (IF 5000 * e.n <= 15000 THEN 5000 * e.n ELSE 15000)
                  /\ IF i + 1 = Len(log[c])
                     THEN call[c].pc = "wait" /\ call[c].attempt = e.n
                     ELSE log[c][i + 2].ev = "sdk_call" /\ log[c][i + 2].n = e.n + 1
        /\ (/\ call[c].maxRetries = 3
            /\ call[c].pc = "done"
            /\ SdkResults(log[c]) = <<"error", "error", "ok">>
            /\ Indices(log[c], "direct_call") = {}) =>
               /\ call[c].result.kind = "returned"
               /\ call[c].result.audio \in {<<Chunk("sdk", <<c>>, 3)>>, <<>>}
               /\ Waits(log[c]) = <<5000, 10000>>

\* C3 happens: fail, fail, success with maxRetries = 3
C3_Witness ==
    \E c \in CallIds :
        /\ call[c].maxRetries = 3
        /\ call[c].pc = "done"
        /\ SdkResults(log[c]) = <<"error", "error", "ok">>
        /\ Indices(log[c], "direct_call") = {}
        /\ call[c].result.audio = <<Chunk("sdk", <<c>>, 3)>>

----------------------------------------------------------------------------
(* Properties of the cache *)

TransportCalls(lg) == Cardinality(Indices(lg, "sdk_call") \cup Indices(lg, "direct_call"))
NoTransportError(lg) == \A i \in DOMAIN lg : lg[i].res # "error"

\* C10: two activations of generatePodcastAudioWithRetry with the same
\* (text, voiceId) whose transport calls all succeed issue exactly one network
\* call between them and return the same audio, whether the second starts
\* after the first has returned or while it is in flight.
C10_OneNetworkCallForIdenticalInput ==
    (/\ call[1].script = call[2].script
     /\ call[1].result.kind = "returned" /\ call[2].result.kind = "returned"
     /\ NoTransportError(log[1]) /\ NoTransportError(log[2])) =>
        /\ TransportCalls(log[1]) + TransportCalls(log[2]) = 1
        /\ call[1].result.audio = call[2].result.audio

----------------------------------------------------------------------------
(* Properties of the dialogue path *)

TransportCallEvents == {"sdk_call", "direct_call"}
Succeeded(t) == \A s \in DOMAIN task[t] : task[t][s].pc = "fulfilled"
Failed(t) == \E s \in DOMAIN task[t] : task[t][s].pc = "rejected"
SegmentAudio(t) == BufferConcat([s \in DOMAIN task[t] |-> task[t][s].audio])

C5_TransportTextWithinCeiling ==
    /\ \A c \in CallIds : \A i \in DOMAIN log[c] :
          log[c][i].ev \in TransportCallEvents => log[c][i].len <= 9900
    /\ \A t \in DOMAIN task : \A s \in DOMAIN task[t] : \A i \in DOMAIN task[t][s].log :
          task[t][s].log[i].ev \in TransportCallEvents => task[t][s].log[i].len <= 9900

\* the chunks of buf come from turns and segments in increasing order
InSubmissionOrder(buf) ==
    \A i \in DOMAIN buf : \A j \in DOMAIN buf :
        i < j => \/ buf[i].who[1] < buf[j].who[1]
                 \/ buf[i].who[1] = buf[j].who[1] /\ buf[i].who[2] < buf[j].who[2]

\* C6: whatever the order the transport calls complete in, a turn's audio is
\* its segments' audio in segment order, the dialogue's audio holds the turns
\* in turn order, and when every turn succeeds it is the concatenation of all
\* the turns' audio.
C6_SubmissionOrder ==
    /\ \A t \in DOMAIN turn :
          turn[t].pc = "fulfilled" => turn[t].audio = SegmentAudio(t) /\ InSubmissionOrder(turn[t].audio)
    /\ assembly.result.kind = "returned" => InSubmissionOrder(assembly.result.audio)
    /\ (assembly.pc = "done" /\ \A t \in DOMAIN turn : turn[t].pc = "fulfilled") =>
          /\ assembly.result.kind = "returned"
          /\ assembly.result.audio = BufferConcat([t \in DOMAIN turn |-> turn[t].audio])

\* C6 happens: every turn succeeded, the second turn settled before the first
\* and the second segment of the first turn before its first
C6_Witness ==
    /\ assembly.pc = "done"
    /\ Len(turn) = 2
    /\ \A t \in DOMAIN turn : turn[t].pc = "fulfilled"
    /\ assembly.order = <<2, 1>>
    /\ turn[1].order = <<2, 1>>
    /\ Len(assembly.result.audio) = 3

\* C7: when the dialogue's Promise.all has settled and at least one turn
\* succeeded, the result is returned audio: the successful turns' audio in
\* turn order, with no chunk of a failed turn.
C7_FailedTurnsDropped ==
    (assembly.pc = "done" /\ \E t \in DOMAIN task : Succeeded(t)) =>
        /\ assembly.result.kind = "returned"
        /\ assembly.result.audio =
              BufferConcat([t \in DOMAIN task |-> IF Succeeded(t) THEN SegmentAudio(t) ELSE <<>>])
        /\ \A i \in DOMAIN assembly.result.audio : ~Failed(assembly.result.audio[i].who[1])

\* C7 happens: a turn that produced audio for one segment failed on another
\* and was dropped, while another turn's audio was returned
C7_Witness ==
    /\ assembly.pc = "done"
    /\ \E t \in DOMAIN task :
          /\ Failed(t)
          /\ \E s \in DOMAIN task[t] : task[t][s].pc = "fulfilled" /\ task[t][s].audio # <<>>
    /\ \E t \in DOMAIN task : Succeeded(t) /\ SegmentAudio(t) # <<>>
    /\ assembly.result.kind = "returned"

\* C8: when every turn of a non-empty dialogue failed, the assembly throws
\* "All audio segments failed to generate" and returns no audio.
C8_AllTurnsFailedThrows ==
    (assembly.pc = "done" /\ \A t \in DOMAIN task : Failed(t)) =>
        /\ dialogue # <<>>
        /\ assembly.result.kind = "thrown"
        /\ assembly.result.error = "All audio segments failed to generate"
        /\ assembly.result.audio = <<>>

\* C8 happens: a dialogue of two turns, both failed
C8_Witness ==
    /\ assembly.pc = "done"
    /\ Len(dialogue) = 2
    /\ \A t \in DOMAIN task : Failed(t)

\* C9: a turn longer than maxSegmentLength fails as a whole as soon as one of
\* its segments fails; when it succeeds, every segment succeeded and its audio
\* holds all of them.
C9_SegmentFailureFailsTurn ==
    \A t \in DOMAIN task :
        TextLen(dialogue[t].text) > 2500 =>
            /\ Failed(t) => turn[t].pc = "rejected" /\ turn[t].audio = <<>>
            /\ turn[t].pc = "fulfilled" =>
                  /\ Succeeded(t)
                  /\ \A s \in DOMAIN task[t] : \A i \in DOMAIN task[t][s].audio :
                        \E j \in DOMAIN turn[t].audio : turn[t].audio[j] = task[t][s].audio[i]
            /\ (Failed(t) /\ assembly.result.kind = "returned") =>
                  \A i \in DOMAIN assembly.result.audio : assembly.result.audio[i].who[1] # t

\* C9 happens: of a turn's two segments one produced audio and the other
\* failed, and the turn is rejected
C9_Witness ==
    \E t \in DOMAIN task :
        /\ Len(task[t]) = 2
        /\ task[t][1].pc = "fulfilled" /\ task[t][1].audio # <<>>
        /\ task[t][2].pc = "rejected"
        /\ turn[t].pc = "rejected"

----------------------------------------------------------------------------
(* Properties of the audio a call hands back *)

\* C11: a transport reply with a zero-byte body is a failure of the transport
\* call, so no activation of generatePodcastAudioWithRetry returns a zero-byte
\* buffer as its audio and none is stored in the cache.
C11_NoEmptyAudioAsSuccess ==
    /\ \A c \in CallIds :
          call[c].result.kind = "returned" => call[c].result.audio # <<>>
    /\ \A k \in DOMAIN audioCache : audioCache[k] # <<>>

----------------------------------------------------------------------------
(* Properties of splitTextIntoSegments *)

\* a run of non-terminator characters followed by one or more of . ! ?
IsSentence(g) ==
    \E k \in 1..(Len(g) - 1) :
        /\ \A i \in 1..k : g[i].c \notin Terminators
        /\ \A i \in (k + 1)..Len(g) : g[i].c \in Terminators

\* the sentences text.match(/[^.!?]+[.!?]+/g) finds in the text
Sentences == Match(split.text, <<>>, "start", <<>>)

\* the segment is exactly one sentence of the text (trimmed, as every
\* segment is) and that sentence is longer than maxLength
OneLongSentence(g) ==
    \E i \in DOMAIN Sentences :
        /\ g = trim(Sentences[i])
        /\ TextLen(Sentences[i]) > split.maxLength

\* every sentence of the text longer than maxLength is a segment of its own,
\* whole
LongSentencesKeptWhole ==
    \A i \in DOMAIN Sentences :
        TextLen(Sentences[i]) > split.maxLength =>
            \E j \in DOMAIN split.segments : split.segments[j] = trim(Sentences[i])

\* C12 as stated: every segment returned by splitTextIntoSegments has at most
\* maxLength characters or is exactly one sentence that alone exceeds
\* maxLength, and a sentence longer than maxLength is neither merged with a
\* neighbour nor split.
C12_SegmentWithinLimitOrOneSentence ==
    split.pc = "returned" =>
        /\ \A j \in DOMAIN split.segments :
              \/ TextLen(split.segments[j]) <= split.maxLength
              \/ OneLongSentence(split.segments[j])
        /\ LongSentencesKeptWhole

\* C12 as amended: every segment returned by splitTextIntoSegments has at most
\* maxLength characters, or is exactly one sentence that alone exceeds
\* maxLength, or is the whole trimmed text when the text holds no sentence at
\* all; a sentence longer than maxLength is neither merged with a neighbour
\* nor split.
C12_SegmentWithinLimitOrOneSentenceOrWholeText ==
    split.pc = "returned" =>
        /\ \A j \in DOMAIN split.segments :
              \/ TextLen(split.segments[j]) <= split.maxLength
              \/ OneLongSentence(split.segments[j])
              \/ Sentences = <<>> /\ split.segments = <<trim(split.text)>>
        /\ LongSentencesKeptWhole

\* a text has been split into a segment of two sentences and a segment that
\* is one sentence longer than maxLength
C12_Witness ==
    /\ split.pc = "returned"
    /\ Len(split.segments) >= 2
    /\ \E j \in DOMAIN split.segments :
          /\ TextLen(split.segments[j]) > split.maxLength
          /\ IsSentence(split.segments[j])
          /\ OneLongSentence(split.segments[j])
    /\ \E j \in DOMAIN split.segments : \E i \in 1..(Len(split.segments[j]) - 1) :
          /\ TextLen(split.segments[j]) <= split.maxLength
          /\ split.segments[j][i].c \in Terminators
          /\ split.segments[j][i + 1].c \notin Terminators

\* the characters of a text that are not whitespace
NonWhitespace(t) == SelectSeq(t, LAMBDA r : r.c \notin Whitespace)

\* C13: splitTextIntoSegments loses no text: a text of at most maxLength
\* characters comes back as the single segment [text], and the segments of a
\* longer text, concatenated in order, are the text again but for whitespace,
\* also when the text ends without a sentence terminator.
C13_SegmentationLosesNoText ==
    split.pc = "returned" =>
        /\ TextLen(split.text) <= split.maxLength => split.segments = <<split.text>>
        /\ TextLen(split.text) > split.maxLength =>
              NonWhitespace(BufferConcat(split.segments)) = NonWhitespace(split.text)

----------------------------------------------------------------------------
(* Properties of how an activation of generatePodcastAudioWithRetry ends *)

\* the transport results in an activation's log
TransportResults(lg) == Indices(lg, "sdk_result") \cup Indices(lg, "direct_result")
\* the last of them
LastTransportResult(lg) == CHOOSE i \in TransportResults(lg) : \A j \in TransportResults(lg) : j <= i

\* C14: an activation that ended with the error thrown after calling a
\* transport reports the error of the last transport call it made, the
\* fallback's if the fallback was called last and the primary's otherwise; the
\* reported error is that of the last attempt, never absent and never one of
\* an earlier call.
C14_ThrownErrorIsLastTransportError ==
    \A c \in CallIds :
        call[c].result.kind = "thrown" /\ TransportResults(log[c]) # {} =>
            LET last == log[c][LastTransportResult(log[c])] IN
            /\ last.res = "error"
            /\ call[c].result.error = last.msg
            /\ call[c].result.error \notin {"", "null"}
            /\ last.n = call[c].maxRetries
            /\ LastTransportResult(log[c]) = Len(log[c])

\* an activation has thrown the fallback's error after three primary attempts
\* that failed with another error
C14_Witness ==
    \E c \in CallIds :
        /\ call[c].result.kind = "thrown"
        /\ call[c].maxRetries = 3
        /\ Cardinality(Indices(log[c], "sdk_result")) = 3
        /\ log[c][Len(log[c])].ev = "direct_result"
        /\ call[c].result.error = HttpErrorMsg
        /\ \A i \in Indices(log[c], "sdk_result") : log[c][i].msg = NoAudioMsg

----------------------------------------------------------------------------
(* Properties of what createPodcastFromUrl returns *)

\* the turns whose audio is not in the assembled buffer
DroppedTurns == {t \in DOMAIN turn : turn[t].pc = "rejected"}

\* C15: when createPodcastFromUrl returns the audio of a dialogue of which
\* some turn was dropped, the returned object tells which turns were dropped:
\* it has a component besides the script, the audio and the dialogue, or its
\* script or dialogue differ from those of a complete result.
C15_ResultReportsDroppedTurns ==
    assembly.pc = "done" /\ assembly.result.kind = "returned" /\ DroppedTurns # {} =>
        LET r == createPodcastFromUrlReturn(dialogue, assembly.result.audio) IN
        \/ DOMAIN r \ {"script", "audio", "dialogue"} # {}
        \/ r.dialogue # dialogue
        \/ r.script # joinTexts(dialogue)

----------------------------------------------------------------------------
(* Termination of generatePodcastAudioWithRetry *)

\* the activation has returned or thrown
Ended(c) == call[c].pc = "done" /\ call[c].result.kind \in {"returned", "thrown"}

\* at most maxRetries calls of each transport, and no primary call once a
\* transport call has succeeded
WithinMaxRetries(c) ==
    /\ Cardinality(Indices(log[c], "sdk_call")) <= call[c].maxRetries
    /\ Cardinality(Indices(log[c], "direct_call")) <= call[c].maxRetries
    /\ \A i \in TransportResults(log[c]) :
          log[c][i].res = "ok" => \A j \in Indices(log[c], "sdk_call") : j < i
    /\ call[c].pc = "done" => Ended(c)

\* C16: every activation of generatePodcastAudioWithRetry with maxRetries >= 1
\* ends, with the audio returned or an error thrown, provided every transport
\* call and every backoff wait completes; it makes at most maxRetries primary
\* calls and at most maxRetries fallback calls, and no primary call after a
\* transport call has succeeded.
C16_EndsWithinMaxRetries ==
    /\ [](\A c \in CallIds : call[c].pc # "absent" => WithinMaxRetries(c))
    /\ <>(\A c \in CallIds : call[c].pc # "absent" => Ended(c))

\* an activation has thrown after three primary calls, each ended by the
\* timeout, and three fallback calls
C16_Witness ==
    \E c \in CallIds :
        /\ Ended(c)
        /\ call[c].result.kind = "thrown"
        /\ call[c].maxRetries = 3
        /\ Cardinality(Indices(log[c], "sdk_call")) = 3
        /\ Cardinality(Indices(log[c], "direct_call")) = 3

----------------------------------------------------------------------------
(* Properties of the timers of generateSpeechWithProgress *)

\* the activation returned because generateSpeech settled before the timeout
SettledBeforeDeadline(i) ==
    /\ speech[i].pc = "returned"
    /\ speech[i].audioPromise = "settled"
    /\ speech[i].result.error # TimeoutMsg

\* C17: once generateSpeech has settled before the 300 s timeout and
\* generateSpeechWithProgress has returned, the timeout timer of that
\* activation is cancelled: it is not pending any more and it never fires.
C17_NoTimerAfterSettlement ==
    \A i \in DOMAIN speech :
        SettledBeforeDeadline(i) =>
            /\ speech[i].timeoutTimer \notin {"pending", "fired"}
            /\ speech[i].lateTimeouts = 0

----------------------------------------------------------------------------
(* Properties of generateSegmentedAudio *)

\* the activations of the segments
SegmentCalls == DOMAIN segmented.segments
SomeSegmentThrew == \E x \in SegmentCalls : call[x].result.kind = "thrown"

\* C18: generatePodcastAudio cuts a script into segments exactly when it is
\* longer than 3000 characters. If the activation of some segment throws, the
\* whole script is given to one more activation with maxRetries = 2 and what
\* that activation returns or throws is the result, with no audio of any
\* segment in it; if every segment's activation returns, the result is their
\* audio in the order of the segments and the whole script's activation is
\* never made.
C18_SegmentFailureRestartsWholeScript ==
    /\ segmented.pc \notin {"none", "called"} =>
          (segmented.segments # <<>> <=> TextLen(segmented.script) > SegmentedThreshold)
    /\ segmented.segments # <<>> =>
          /\ SomeSegmentThrew => segmented.pc \in {"rejected", "fallback", "done"}
          /\ call[WholeScriptCall].pc # "absent" =>
                /\ SomeSegmentThrew
                /\ call[WholeScriptCall].script = segmented.script
                /\ call[WholeScriptCall].maxRetries = 2
          /\ segmented.pc = "done" =>
                IF SomeSegmentThrew
                THEN /\ call[WholeScriptCall].pc = "done"
                     /\ segmented.result = call[WholeScriptCall].result
                     /\ segmented.result.kind \in {"returned", "thrown"}
                     /\ \A i \in DOMAIN segmented.result.audio :
                           segmented.result.audio[i].who = <<WholeScriptCall>>
                ELSE /\ call[WholeScriptCall].pc = "absent"
                     /\ \A x \in SegmentCalls : call[x].result.kind = "returned"
                     /\ segmented.result =
                           Returned(BufferConcat([x \in SegmentCalls |-> call[x].result.audio]))

\* of two segments the first has thrown and the second has returned its audio;
\* the whole script's activation has returned audio, which is the result
C18_Witness ==
    /\ segmented.pc = "done"
    /\ Len(segmented.segments) = 2
    /\ call[1].result.kind = "thrown"
    /\ call[2].result.kind = "returned" /\ call[2].result.audio # <<>>
    /\ call[WholeScriptCall].result.kind = "returned"
    /\ segmented.result.kind = "returned"
    /\ segmented.result.audio # <<>>

====
